---- MODULE Spec2Model ----
(***************************************************************************)
(* A model of src/utils.c of qc_image_unpacker: the recursive input-file   *)
(* collector (utils_init_files / utils_readdir), the full-buffer write     *)
(* (utils_writeToFd), the mmap read-open (utils_mapFileToRead) and the hex *)
(* dump formatter (utils_hexDump).  Each of the four is a state machine of *)
(* its own with its own specification (SpecFiles, SpecWrite, SpecMap,      *)
(* SpecHex); the variables of the other three stay at their idle values.   *)
(***************************************************************************)
EXTENDS Integers, Sequences, FiniteSets, TLC

\* ------------------------------------------------------------------ bounds

\* Entries (files, directories, others) below the root of a modelled tree.
MaxNodes == 3

VARIABLES
  \* --- FileCollector: the environment
  fs,          \* the directory snapshot: path -> kind of the entry
  inputNull,   \* pFiles->inputFile == NULL
  \* --- FileCollector: the program
  phase,       \* position in utils_init_files: "start", "walk", "done"
  stack,       \* the activations of utils_readdir, innermost last
  files,       \* pFiles->files: [isNull, slots]
  fileCnt,     \* pFiles->fileCnt
  openDirs,    \* DIR handles opened and not yet closed (by directory path)
  walkOk,      \* what the outermost utils_readdir returned
  result,      \* what utils_init_files returned: "none", "true", "false"
  \* --- FileCollector: history of the run
  ioFailed,    \* directories whose opendir or readdir failed
  allocFailed, \* directories in whose activation realloc or strdup failed
  returned,    \* <<directory, value>> for every activation that returned
  \* --- utils_writeToFd
  wBuf,        \* buf: the bytes to write
  wFileSz,     \* fileSz
  wWritten,    \* written
  wPc,         \* "idle", "loop", "done"
  wRet,        \* "none", "true", "false"
  wDest,       \* the bytes the descriptor has accepted, in order
  wLast,       \* the last write call: where from, how many, its outcome
  wHist,       \* which outcomes the run has seen
  \* --- utils_mapFileToRead
  mFile,       \* the file at fileName: [exists, size]
  mTable,      \* the descriptors open in the process
  mPc,         \* "idle", "open", "fstat", "mmap", "done"
  mFd,         \* *fd
  mSt,         \* st.st_size
  mFileSz,     \* *fileSz
  mRet,        \* "none", "NULL", "buf"
  mOpened,     \* the descriptors this call opened
  \* --- utils_hexDump
  hDesc,       \* desc != NULL
  hLen,        \* len
  hData,       \* the bytes at addr
  hPc,         \* "idle", "start", "loop", "pad", "last", "done"
  hI,          \* i
  hBuff,       \* buff[17]
  hOut,        \* what LOGMSG_RAW was given, one element a call
  hReads       \* the indices of addr that were read

filesVars == <<fs, inputNull, phase, stack, files, fileCnt, openDirs, walkOk,
               result, ioFailed, allocFailed, returned>>

writeVars == <<wBuf, wFileSz, wWritten, wPc, wRet, wDest, wLast, wHist>>

mapVars == <<mFile, mTable, mPc, mFd, mSt, mFileSz, mRet, mOpened>>

hexVars == <<hDesc, hLen, hData, hPc, hI, hBuff, hOut, hReads>>

vars == <<filesVars, writeVars, mapVars, hexVars>>

\* The state of a component that is not running.
IdleFiles ==
  /\ fs = (<<>> :> "nostat") /\ inputNull = TRUE /\ phase = "idle"
  /\ stack = <<>> /\ files = [isNull |-> TRUE, slots |-> <<>>] /\ fileCnt = 0
  /\ openDirs = {} /\ walkOk = FALSE /\ result = "none"
  /\ ioFailed = {} /\ allocFailed = {} /\ returned = {}

IdleWrite ==
  /\ wBuf = <<>> /\ wFileSz = 0 /\ wWritten = 0 /\ wPc = "idle" /\ wRet = "none"
  /\ wDest = <<>> /\ wLast = [res |-> "none", off |-> 0, len |-> 0, before |-> 0]
  /\ wHist = {}

IdleMap ==
  /\ mFile = [exists |-> FALSE, size |-> 0] /\ mTable = {} /\ mPc = "idle"
  /\ mFd = -1 /\ mSt = 0 /\ mFileSz = 0 /\ mRet = "none" /\ mOpened = {}

IdleHex ==
  /\ hDesc = FALSE /\ hLen = 0 /\ hData = <<>> /\ hPc = "idle" /\ hI = 0
  /\ hBuff = <<>> /\ hOut = <<>> /\ hReads = {}

\* ------------------------------------------------------------ FileCollector

\* Entry names in readdir order; "." and ".." come first in every listing.
NameOf == <<"a", "b", "c", "d", "e", "f", "g", "h">>

\* What stat() finds at a path.
\*   "nostat" stat fails           "other"  neither regular nor directory
\*   "dir"    a directory          "empty"  a regular file of size 0
\*   "reg"    a regular file of size > 0
Kinds == {"nostat", "other", "dir", "empty", "reg"}

RootPath == <<>>

Parent(p) == SubSeq(p, 1, Len(p) - 1)

ChildrenOf(t, d) == {p \in DOMAIN t : Len(p) = Len(d) + 1 /\ Parent(p) = d}

\* The places where one more entry can be added to tree t: as the next entry
\* of any of its directories.
Slots(t) ==
  {Append(d, NameOf[Cardinality(ChildrenOf(t, d)) + 1]) :
     d \in {q \in DOMAIN t : t[q] = "dir"}}

RECURSIVE TreesWith(_)
\* Every directory tree with exactly n entries below a directory root.
TreesWith(n) ==
  IF n = 0 THEN {(RootPath :> "dir")}
  ELSE UNION {{t @@ (p :> k) : p \in Slots(t), k \in Kinds} : t \in TreesWith(n - 1)}

\* The snapshots: a root that is no directory, or a directory tree.
Snapshots ==
  {(RootPath :> k) : k \in Kinds \ {"dir"}}
    \cup UNION {TreesWith(n) : n \in 0..MaxNodes}

\* stat(): utils.c reads st_mode and st_size of the result.
Stat(p) ==
  LET k == fs[p] IN
  [ok   |-> k # "nostat",
   mode |-> CASE k = "dir" -> "DIR"
              [] k \in {"reg", "empty"} -> "REG"
              [] OTHER -> "OTHER",
   size |-> IF k = "reg" THEN 1 ELSE 0]

S_ISDIR(st) == st.mode = "DIR"

S_ISREG(st) == st.mode = "REG"

\* The entries readdir returns for directory d, in order.
Listing(d) ==
  <<".", "..">> \o [i \in 1..Cardinality(ChildrenOf(fs, d)) |-> NameOf[i]]

\* snprintf(path, sizeof(path), "%s/%s", basePath, entry->d_name).  A join
\* longer than the buffer is cut, and a path that long fails stat
\* (ENAMETOOLONG), which is the "nostat" kind.
JoinPath(base, name) == Append(base, name)

\* A char * value: a string (a path), NULL, or indeterminate (never written).
Str(p) == [tag |-> "str", p |-> p]

NullPtr == [tag |-> "null", p |-> <<>>]

Indet == [tag |-> "indet", p |-> <<>>]

NullArray == [isNull |-> TRUE, slots |-> <<>>]

\* malloc(n * sizeof(char *)): n slots of indeterminate content.
Malloc(n) == [isNull |-> FALSE, slots |-> [i \in 1..n |-> Indet]]

\* realloc(old, n * sizeof(char *)) that succeeds: the common prefix is kept,
\* new slots are indeterminate; realloc(NULL, ..) is malloc.
Realloc(old, n) ==
  [isNull |-> FALSE,
   slots  |-> [i \in 1..n |->
                 IF ~old.isNull /\ i <= Len(old.slots) THEN old.slots[i] ELSE Indet]]

Frame(base) == [base |-> base, pos |-> 0, pc |-> "opendir", path |-> <<>>, ret |-> FALSE]

Top == stack[Len(stack)]

\* --- the control decisions of utils_readdir, each naming what happens next:
\*   "continue"   next loop iteration       "stat"      stat the joined path
\*   "recurse"    call utils_readdir        "append"    grow the set
\*   "break"      leave the loop, closedir, return true
\*   "fail"       return false              "failClose" closedir, return false

\* Lines 38-53: the result of readdir and the "." / ".." filter.
AfterReaddir(entryIsNull, errno, name) ==
  IF entryIsNull /\ errno = "EINTR" THEN "continue"
  ELSE IF entryIsNull /\ errno # "0" THEN "fail"
  ELSE IF entryIsNull THEN "break"
  ELSE IF name = "." \/ name = ".." THEN "continue"
  ELSE "stat"

\* Classify without the size test of lines 76-79.
ClassifyNoSizeTest(st) ==
  IF ~S_ISREG(st) THEN "continue"
  ELSE "append"

\* Lines 71-79: only regular, non-empty files are appended.
Classify(st) ==
  IF ~S_ISREG(st) THEN "continue"
  ELSE IF st.size = 0 THEN "continue"
  ELSE "append"

\* Lines 59-79, on the stat result of the joined path.
AfterStat(st) ==
  IF ~st.ok THEN "continue"
  ELSE IF S_ISDIR(st) THEN "recurse"
  ELSE Classify(st)

\* AfterRecursion passing the failure of the recursive call on.
AfterRecursionPropagating(ok, st) ==
  IF ~ok THEN "failClose"
  ELSE Classify(st)

\* Lines 65-79, when the recursive call has returned ok.
AfterRecursion(ok, st) ==
  IF ~ok THEN "continue"
  ELSE Classify(st)

\* Lines 81-85 and 88-92: a failed realloc or strdup.
AfterAllocFailure == "failClose"

\* The frame after a control decision.
Goto(f, o) ==
  CASE o = "continue"  -> [f EXCEPT !.pc = "readdir"]
    [] o = "stat"      -> [f EXCEPT !.pc = "stat"]
    [] o = "recurse"   -> [f EXCEPT !.pc = "call"]
    [] o = "append"    -> [f EXCEPT !.pc = "realloc"]
    [] o = "break"     -> [f EXCEPT !.pc = "ret", !.ret = TRUE]
    [] o = "fail"      -> [f EXCEPT !.pc = "ret", !.ret = FALSE]
    [] o = "failClose" -> [f EXCEPT !.pc = "ret", !.ret = FALSE]

\* closedir(dir) happens on "break" (line 98) and "failClose" (lines 83, 90).
Closes(o) == o \in {"break", "failClose"}

HandlesAfter(f, o) == IF Closes(o) THEN openDirs \ {f.base} ELSE openDirs

\* DirResult without the fileCnt test of lines 127-130.
DirResultNoCountTest(walked, cnt) ==
  IF ~walked THEN "false"
  ELSE "true"

\* Lines 120-134: the result for a directory root.
DirResult(walked, cnt) ==
  IF ~walked THEN "false"
  ELSE IF cnt = 0 THEN "false"
  ELSE "true"

\* --- utils_init_files, lines 102-146, up to the walk or the return.
InitFilesEnter ==
  /\ phase = "start"
  /\ \E mallocOk \in BOOLEAN :
       LET st == Stat(RootPath) IN
       /\ files' = IF ~mallocOk THEN NullArray
                   ELSE IF ~inputNull /\ st.ok /\ ~S_ISDIR(st) /\ S_ISREG(st)
                     THEN [Malloc(1) EXCEPT !.slots[1] = Str(RootPath)]
                   ELSE Malloc(1)
       /\ IF ~mallocOk \/ inputNull \/ ~st.ok
            THEN /\ phase' = "done" /\ result' = "false"
                 /\ UNCHANGED <<stack, fileCnt>>
          ELSE IF S_ISDIR(st)
            THEN /\ phase' = "walk" /\ stack' = <<Frame(RootPath)>>
                 /\ UNCHANGED <<result, fileCnt>>
          ELSE IF ~S_ISREG(st)
            THEN /\ phase' = "done" /\ result' = "false"
                 /\ UNCHANGED <<stack, fileCnt>>
          ELSE /\ phase' = "done" /\ result' = "true" /\ fileCnt' = 1
               /\ UNCHANGED stack
  /\ UNCHANGED <<fs, inputNull, openDirs, walkOk, ioFailed, allocFailed, returned>>
  /\ UNCHANGED <<writeVars, mapVars, hexVars>>

\* Lines 122-133: the outermost utils_readdir has returned.
InitFilesAfterWalk ==
  /\ phase = "walk" /\ stack = <<>>
  /\ phase' = "done"
  /\ result' = DirResult(walkOk, fileCnt)
  /\ UNCHANGED <<fs, inputNull, stack, files, fileCnt, openDirs, walkOk,
                 ioFailed, allocFailed, returned>>
  /\ UNCHANGED <<writeVars, mapVars, hexVars>>

\* Lines 30-34: opendir(basePath).
Opendir ==
  /\ phase = "walk" /\ stack # <<>> /\ Top.pc = "opendir"
  /\ \E ok \in BOOLEAN :
       LET o == IF ok THEN "continue" ELSE "fail" IN
       /\ stack' = [stack EXCEPT ![Len(stack)] = Goto(Top, o)]
       /\ openDirs' = IF ok THEN openDirs \cup {Top.base} ELSE openDirs
       /\ ioFailed' = IF ok THEN ioFailed ELSE ioFailed \cup {Top.base}
  /\ UNCHANGED <<fs, inputNull, phase, files, fileCnt, walkOk, result,
                 allocFailed, returned>>
  /\ UNCHANGED <<writeVars, mapVars, hexVars>>

\* Lines 37-56: one readdir call, the "." / ".." filter and the path join.
\* The call returns the next entry of the listing (NULL with errno 0 at its
\* end), or NULL with errno EINTR, or NULL with another errno.
Readdir ==
  /\ phase = "walk" /\ stack # <<>> /\ Top.pc = "readdir"
  /\ \E errno \in {"0", "EINTR", "EIO"} :
       LET l == Listing(Top.base)
           entryIsNull == errno # "0" \/ Top.pos >= Len(l)
           name == IF entryIsNull THEN "" ELSE l[Top.pos + 1]
           o == AfterReaddir(entryIsNull, errno, name)
           f == [Top EXCEPT !.pos = IF entryIsNull THEN @ ELSE @ + 1,
                            !.path = IF o = "stat" THEN JoinPath(Top.base, name) ELSE <<>>]
       IN
       /\ stack' = [stack EXCEPT ![Len(stack)] = Goto(f, o)]
       /\ openDirs' = HandlesAfter(Top, o)
       /\ ioFailed' = IF o = "fail" THEN ioFailed \cup {Top.base} ELSE ioFailed
  /\ UNCHANGED <<fs, inputNull, phase, files, fileCnt, walkOk, result,
                 allocFailed, returned>>
  /\ UNCHANGED <<writeVars, mapVars, hexVars>>

\* Lines 58-79: stat the joined path and decide; a directory starts a new
\* activation of utils_readdir on it.
StatEntry ==
  /\ phase = "walk" /\ stack # <<>> /\ Top.pc = "stat"
  /\ LET o == AfterStat(Stat(Top.path))
         s == [stack EXCEPT ![Len(stack)] = Goto(Top, o)]
     IN
     /\ stack' = IF o = "recurse" THEN Append(s, Frame(Top.path)) ELSE s
     /\ openDirs' = HandlesAfter(Top, o)
  /\ UNCHANGED <<fs, inputNull, phase, files, fileCnt, walkOk, result,
                 ioFailed, allocFailed, returned>>
  /\ UNCHANGED <<writeVars, mapVars, hexVars>>

\* Lines 81-85: grow the array by one slot; on failure files is set to NULL.
ReallocFiles ==
  /\ phase = "walk" /\ stack # <<>> /\ Top.pc = "realloc"
  /\ \E ok \in BOOLEAN :
       IF ok
         THEN /\ files' = Realloc(files, fileCnt + 1)
              /\ stack' = [stack EXCEPT ![Len(stack)].pc = "strdup"]
              /\ UNCHANGED <<openDirs, allocFailed>>
         ELSE /\ files' = NullArray
              /\ stack' = [stack EXCEPT ![Len(stack)] = Goto(Top, AfterAllocFailure)]
              /\ openDirs' = HandlesAfter(Top, AfterAllocFailure)
              /\ allocFailed' = allocFailed \cup {Top.base}
  /\ UNCHANGED <<fs, inputNull, phase, fileCnt, walkOk, result, ioFailed, returned>>
  /\ UNCHANGED <<writeVars, mapVars, hexVars>>

\* Lines 87-95: files[fileCnt] = strdup(path), then fileCnt++.
StrdupPath ==
  /\ phase = "walk" /\ stack # <<>> /\ Top.pc = "strdup"
  /\ \E ok \in BOOLEAN :
       IF ok
         THEN /\ files' = [files EXCEPT !.slots[fileCnt + 1] = Str(Top.path)]
              /\ fileCnt' = fileCnt + 1
              /\ stack' = [stack EXCEPT ![Len(stack)] = Goto(Top, "continue")]
              /\ UNCHANGED <<openDirs, allocFailed>>
         ELSE /\ files' = [files EXCEPT !.slots[fileCnt + 1] = NullPtr]
              /\ fileCnt' = fileCnt
              /\ stack' = [stack EXCEPT ![Len(stack)] = Goto(Top, AfterAllocFailure)]
              /\ openDirs' = HandlesAfter(Top, AfterAllocFailure)
              /\ allocFailed' = allocFailed \cup {Top.base}
  /\ UNCHANGED <<fs, inputNull, phase, walkOk, result, ioFailed, returned>>
  /\ UNCHANGED <<writeVars, mapVars, hexVars>>

\* A return of utils_readdir: to the caller's line 65, or to line 122.
ReturnWalk ==
  /\ phase = "walk" /\ stack # <<>> /\ Top.pc = "ret"
  /\ returned' = returned \cup {<<Top.base, Top.ret>>}
  /\ IF Len(stack) = 1
       THEN /\ stack' = <<>>
            /\ walkOk' = Top.ret
            /\ UNCHANGED openDirs
       ELSE LET caller == stack[Len(stack) - 1]
                o == AfterRecursion(Top.ret, Stat(caller.path))
            IN
            /\ stack' = [SubSeq(stack, 1, Len(stack) - 1)
                           EXCEPT ![Len(stack) - 1] = Goto(caller, o)]
            /\ openDirs' = HandlesAfter(caller, o)
            /\ UNCHANGED walkOk
  /\ UNCHANGED <<fs, inputNull, phase, files, fileCnt, result, ioFailed, allocFailed>>
  /\ UNCHANGED <<writeVars, mapVars, hexVars>>

InitFiles ==
  /\ fs \in Snapshots
  /\ inputNull \in BOOLEAN
  /\ inputNull => fs = (RootPath :> "nostat")
  /\ phase = "start"
  /\ stack = <<>>
  /\ files = NullArray
  /\ fileCnt = 0
  /\ openDirs = {}
  /\ walkOk = FALSE
  /\ result = "none"
  /\ ioFailed = {}
  /\ allocFailed = {}
  /\ returned = {}
  /\ IdleWrite /\ IdleMap /\ IdleHex

NextFiles ==
  \/ InitFilesEnter
  \/ InitFilesAfterWalk
  \/ Opendir
  \/ Readdir
  \/ StatEntry
  \/ ReallocFiles
  \/ StrdupPath
  \/ ReturnWalk

SpecFiles == InitFiles /\ [][NextFiles]_vars

\* ------------------------------------------------- FileCollector: the claims

Done == phase = "done"

\* files[i - 1] as a consumer of the set reads it; reading through a NULL or
\* too short array yields nothing determinate.
EntryAt(i) ==
  IF files.isNull \/ i > Len(files.slots) THEN Indet ELSE files.slots[i]

InSet(p) == \E i \in 1..fileCnt : EntryAt(i) = Str(p)

IndexOf(name) == CHOOSE i \in 1..Len(NameOf) : NameOf[i] = name

\* The regular non-empty files directly in directory d, in readdir order.
RegularIn(d) ==
  SelectSeq([i \in 1..Cardinality(ChildrenOf(fs, d)) |-> Append(d, NameOf[i])],
            LAMBDA p : fs[p] = "reg")

FlatRoot ==
  /\ fs[RootPath] = "dir"
  /\ \A p \in DOMAIN fs : p # RootPath => fs[p] # "dir"

NoAllocError == ~files.isNull /\ allocFailed = {}

\* Every directory on the way to p is a directory that was opened and read
\* without an error.
Readable(p) ==
  \A k \in 0..(Len(p) - 1) :
    LET d == SubSeq(p, 1, k) IN fs[d] = "dir" /\ d \notin ioFailed

NoRegular == \A p \in DOMAIN fs : fs[p] # "reg"

\* C1: for a root that is a regular file of size 0, and for a root that
\* cannot be stat'ed, utils_init_files returns false and reports no
\* one-element file set.
C1_EmptyOrMissingRootFails ==
  (Done /\ ~inputNull /\ fs[RootPath] \in {"empty", "nostat"})
    => (result = "false" /\ fileCnt # 1)

\* C2: after an append's allocation (realloc, strdup) has failed, the call
\* never returns an ordinary false and no activation of the walk goes on to
\* read a further entry.
C2_AllocFailureIsFatal ==
  allocFailed # {}
    => /\ ~(Done /\ result = "false")
       /\ \A i \in 1..Len(stack) : stack[i].pc # "readdir"

\* C3: in every state during and after the call, each of files[0..fileCnt-1]
\* is a path that was stat'ed as a regular file of size > 0.
C3_EntriesAreRegularNonEmpty ==
  \A i \in 1..fileCnt :
    EntryAt(i).tag = "str" /\ fs[EntryAt(i).p] = "reg"

\* C4: for a directory root without subdirectories that holds N >= 1
\* regular non-empty files, with no allocation, opendir or readdir error,
\* the call succeeds with fileCnt = N and the entries are the paths
\* <root>/<name> of exactly those files, once each, in readdir order.
C4_FlatDirectory ==
  (Done /\ FlatRoot /\ NoAllocError /\ ioFailed = {} /\ Len(RegularIn(RootPath)) >= 1)
    => /\ result = "true"
       /\ fileCnt = Len(RegularIn(RootPath))
       /\ \A i \in 1..fileCnt : EntryAt(i) = Str(RegularIn(RootPath)[i])

C4_Witness ==
  /\ Done /\ FlatRoot /\ NoAllocError /\ ioFailed = {}
  /\ result = "true"
  /\ {<<"a">>, <<"b">>, <<"c">>} \subseteq DOMAIN fs
  /\ fs[<<"a">>] = "reg" /\ fs[<<"b">>] = "empty" /\ fs[<<"c">>] = "reg"
  /\ fileCnt = 2
  /\ EntryAt(1) = Str(<<"a">>) /\ EntryAt(2) = Str(<<"c">>)

\* C5: an activation of the walk returns false only for an error of its own
\* (its opendir, its readdir, an allocation): a failing subdirectory or an
\* entry whose stat fails never makes the parent fail; and when no
\* allocation failed, the final set holds every regular non-empty file of
\* every subtree that was read without an error.
C5_FailingSubtreeIsSkipped ==
  /\ \A r \in returned :
       (r[1] \notin ioFailed /\ r[1] \notin allocFailed) => r[2] = TRUE
  /\ (Done /\ NoAllocError /\ fs[RootPath] = "dir")
       => \A p \in DOMAIN fs : (fs[p] = "reg" /\ Readable(p)) => InSet(p)

C5_Witness ==
  /\ Done /\ result = "true" /\ NoAllocError
  /\ \E d \in ioFailed, q \in DOMAIN fs, p \in DOMAIN fs :
       /\ Len(d) >= 1 /\ Parent(q) = Parent(d) /\ Parent(p) = Parent(d)
       /\ fs[q] = "nostat" /\ fs[p] = "reg"
       /\ IndexOf(d[Len(d)]) < IndexOf(q[Len(q)])
       /\ IndexOf(q[Len(q)]) < IndexOf(p[Len(p)])
       /\ InSet(p)
       /\ <<Parent(d), TRUE>> \in returned

\* C6: a directory root whose tree holds no regular non-empty file makes the
\* call fail, also when the walk itself returned success; and for a
\* directory root the call succeeds only if the walk succeeded and
\* fileCnt > 0.
C6_EmptyTreeFails ==
  (Done /\ fs[RootPath] = "dir")
    => /\ NoRegular => result = "false"
       /\ result = "true" => (walkOk /\ fileCnt > 0)

C6_Witness ==
  /\ Done /\ fs[RootPath] = "dir" /\ NoRegular
  /\ walkOk /\ result = "false"
  /\ \E p, q \in DOMAIN fs : fs[p] = "empty" /\ fs[q] = "dir" /\ q # RootPath

\* C10: a directory handle opened by an activation of utils_readdir is
\* closed when that activation has returned; none is open after
\* utils_init_files has returned.
C10_HandlesClosedOnReturn ==
  /\ \A r \in returned : r[1] \notin openDirs
  /\ Done => openDirs = {}

\* ---------------------------------------------------------- utils_writeToFd

\* The longest buffer modelled.
MaxWriteLen == 4

WriteBytes == {0, 1}

\* WriteOffset always writing from the start of buf.
WriteOffsetFromStart(written) == 0

\* Line 151: the source of the write is &buf[written].
WriteOffset(written) == written

\* Line 151: the count of the write is fileSz - written.
WriteCount(fileSz, written) == fileSz - written

\* Lines 152-156 on the result sz of write (errno matters when sz < 0).
AfterWrite(sz, errno) ==
  IF sz < 0 /\ errno = "EINTR" THEN "retry"
  ELSE IF sz < 0 THEN "fail"
  ELSE "advance"

\* write(fd, src, n) accepting k bytes: they follow what the descriptor holds.
Accept(dest, buf, off, k) == dest \o SubSeq(buf, off + 1, off + k)

\* Lines 149-150 and 159: the loop is entered only while written < fileSz.
WriteLoopTest ==
  /\ wPc = "loop"
  /\ ~(wWritten < wFileSz)
  /\ wPc' = "done"
  /\ wRet' = "true"
  /\ UNCHANGED <<wBuf, wFileSz, wWritten, wDest, wLast, wHist>>
  /\ UNCHANGED <<filesVars, mapVars, hexVars>>

\* Lines 151-156: one write call and what the loop does with its result.  The
\* call accepts 0..count bytes, or fails with EINTR, or fails otherwise.
WriteOnce ==
  /\ wPc = "loop"
  /\ wWritten < wFileSz
  /\ LET off == WriteOffset(wWritten)
         n   == WriteCount(wFileSz, wWritten)
     IN
     \E errno \in {"0", "EINTR", "EIO"}, k \in 0..n :
       LET sz == IF errno = "0" THEN k ELSE -1
           o  == AfterWrite(sz, errno)
       IN
       /\ errno # "0" => k = 0
       /\ wLast' = [res |-> IF sz < 0 THEN errno ELSE "count", off |-> off,
                    len |-> n, before |-> Len(wDest)]
       /\ wDest' = IF sz < 0 THEN wDest ELSE Accept(wDest, wBuf, off, sz)
       /\ wHist' = wHist \cup {IF sz < 0 THEN errno
                               ELSE IF sz < n THEN "partial" ELSE "full"}
       /\ wWritten' = IF o = "advance" THEN wWritten + sz ELSE wWritten
       /\ wPc' = IF o = "fail" THEN "done" ELSE "loop"
       /\ wRet' = IF o = "fail" THEN "false" ELSE wRet
  /\ UNCHANGED <<wBuf, wFileSz>>
  /\ UNCHANGED <<filesVars, mapVars, hexVars>>

InitWrite ==
  /\ wBuf \in [1..MaxWriteLen -> WriteBytes]
  /\ wFileSz \in 0..MaxWriteLen
  /\ wWritten = 0
  /\ wPc = "loop"
  /\ wRet = "none"
  /\ wDest = <<>>
  /\ wLast = [res |-> "none", off |-> 0, len |-> 0, before |-> 0]
  /\ wHist = {}
  /\ IdleFiles /\ IdleMap /\ IdleHex

NextWrite ==
  \/ WriteLoopTest
  \/ WriteOnce

SpecWrite == InitWrite /\ [][NextWrite]_vars

\* C8: utils_writeToFd returns true only when the counts the writes accepted
\* sum to the requested length (the descriptor then holds exactly the first
\* fileSz bytes of buf); every write is issued from the offset of the bytes
\* accepted so far, for the remaining length; after EINTR the offset is the
\* same and the loop goes on; after another error the call has returned
\* false (so that no further write follows it).
C8_WriteAll ==
  /\ wRet = "true" => (Len(wDest) = wFileSz /\ wDest = SubSeq(wBuf, 1, wFileSz))
  /\ wLast.res # "none"
       => (wLast.off = wLast.before /\ wLast.len = wFileSz - wLast.before)
  /\ wLast.res = "EINTR"
       => (wWritten = wLast.off /\ wPc = "loop" /\ wRet = "none")
  /\ wLast.res = "EIO" => (wPc = "done" /\ wRet = "false")
  /\ wRet = "false" => wLast.res = "EIO"

C8_Witness ==
  /\ wRet = "true" /\ wFileSz = 3 /\ wBuf[1] # wBuf[2]
  /\ {"EINTR", "partial"} \subseteq wHist

\* ------------------------------------------------------- utils_mapFileToRead

\* The largest descriptor number and the largest file size modelled.
MaxFd == 3

MaxFileSz == 2

\* open() returns the lowest descriptor number that is not open.
LowestFree(table) == CHOOSE n \in 0..(MaxFd + 1) : n \notin table /\ \A m \in 0..(n - 1) : m \in table

\* close(fd).
Close(table, fd) == table \ {fd}

\* Lines 169-173: a failed fstat closes the descriptor before returning NULL.
FdsAfterFstatFailure(table, fd) == Close(table, fd)

\* FdsAfterMmapFailure without the close of line 178.
FdsAfterMmapFailureNoClose(table, fd) == table

\* Lines 176-180: a failed mmap closes the descriptor before returning NULL.
FdsAfterMmapFailure(table, fd) == Close(table, fd)

\* Lines 163-166: *fd = open(fileName, O_RDONLY).  It fails for a missing
\* file, and may fail for an existing one.
MapOpen ==
  /\ mPc = "open"
  /\ \E ok \in BOOLEAN :
       /\ ok => mFile.exists
       /\ IF ok
            THEN /\ mFd' = LowestFree(mTable)
                 /\ mTable' = mTable \cup {LowestFree(mTable)}
                 /\ mOpened' = mOpened \cup {LowestFree(mTable)}
                 /\ mPc' = "fstat"
                 /\ UNCHANGED mRet
            ELSE /\ mFd' = -1
                 /\ mPc' = "done"
                 /\ mRet' = "NULL"
                 /\ UNCHANGED <<mTable, mOpened>>
  /\ UNCHANGED <<mFile, mSt, mFileSz>>
  /\ UNCHANGED <<filesVars, writeVars, hexVars>>

\* Lines 168-173: fstat(*fd, &st).
MapFstat ==
  /\ mPc = "fstat"
  /\ \E ok \in BOOLEAN :
       IF ok
         THEN /\ mSt' = mFile.size
              /\ mPc' = "mmap"
              /\ UNCHANGED <<mTable, mRet>>
         ELSE /\ mTable' = FdsAfterFstatFailure(mTable, mFd)
              /\ mPc' = "done"
              /\ mRet' = "NULL"
              /\ UNCHANGED mSt
  /\ UNCHANGED <<mFile, mFd, mFileSz, mOpened>>
  /\ UNCHANGED <<filesVars, writeVars, hexVars>>

\* Lines 175-183: mmap(NULL, st.st_size, ..., *fd, 0).  A length of 0 always
\* fails (EINVAL); a successful mapping is at a non-NULL address.
MapMmap ==
  /\ mPc = "mmap"
  /\ \E ok \in BOOLEAN :
       /\ ok => mSt > 0
       /\ IF ok
            THEN /\ mFileSz' = mSt
                 /\ mRet' = "buf"
                 /\ UNCHANGED mTable
            ELSE /\ mTable' = FdsAfterMmapFailure(mTable, mFd)
                 /\ mRet' = "NULL"
                 /\ UNCHANGED mFileSz
       /\ mPc' = "done"
  /\ UNCHANGED <<mFile, mFd, mSt, mOpened>>
  /\ UNCHANGED <<filesVars, writeVars, hexVars>>

\* The caller's *fd and *fileSz hold anything before the call; some
\* descriptors of the process are open, the numbers up to MaxFd not all.
InitMap ==
  /\ mFile \in [exists : BOOLEAN, size : 0..MaxFileSz]
  /\ mTable \in (SUBSET (0..MaxFd)) \ {0..MaxFd}
  /\ mPc = "open"
  /\ mFd \in {-1, 0}
  /\ mSt = 0
  /\ mFileSz \in {0, MaxFileSz + 1}
  /\ mRet = "none"
  /\ mOpened = {}
  /\ IdleFiles /\ IdleWrite /\ IdleHex

NextMap ==
  \/ MapOpen
  \/ MapFstat
  \/ MapMmap

SpecMap == InitMap /\ [][NextMap]_vars

\* C7: when utils_mapFileToRead has returned NULL (open, fstat or mmap
\* failed), no descriptor the call opened is open; when it has returned a
\* buffer, the buffer is not NULL, *fd is the descriptor the call opened and
\* it is open, and *fileSz is the size of the file.
C7_DescriptorHandover ==
  /\ (mPc = "done" /\ mRet = "NULL") => mOpened \cap mTable = {}
  /\ (mPc = "done" /\ mRet # "NULL")
       => /\ mRet = "buf"
          /\ mOpened = {mFd} /\ mFd \in mTable
          /\ mFileSz = mFile.size
  /\ mPc = "done" => mRet \in {"NULL", "buf"}

C7_Witness ==
  /\ mPc = "done" /\ mRet = "NULL"
  /\ mOpened # {} /\ mSt > 0
  /\ mTable # {}

\* ------------------------------------------------------------ utils_hexDump

\* The longest and the most negative len modelled.
MaxHexLen == 34

MaxNegLen == 2

\* Byte values around the limits of the printable range.
ByteVals == <<0, 31, 32, 65, 126, 127, 255>>

\* The buffers: MaxHexLen bytes that run through ByteVals from a start.
HexBuffers ==
  {[i \in 1..MaxHexLen |-> ByteVals[((i + seed) % Len(ByteVals)) + 1]] :
     seed \in 0..(Len(ByteVals) - 1)}

\* Text is a sequence of character codes.
HexDigitChar(d) == IF d < 10 THEN 48 + d ELSE 87 + d

RECURSIVE HexDigits(_)
\* The digits of n >= 0 in base 16, most significant first, lower case.
HexDigits(n) ==
  IF n < 16 THEN <<HexDigitChar(n)>>
  ELSE Append(HexDigits(n \div 16), HexDigitChar(n % 16))

RECURSIVE ZeroPad(_, _)
ZeroPad(t, width) == IF Len(t) >= width THEN t ELSE ZeroPad(<<48>> \o t, width)

\* printf("%04x", n) and printf("%02x", n).
Fmt04x(n) == ZeroPad(HexDigits(n), 4)

Fmt02x(n) == ZeroPad(HexDigits(n), 2)

\* printf("%s", buff): the characters before the first NUL (what lies
\* beyond buff is not modelled: an unterminated buff reads as all of it).
CString(buff) ==
  LET nul == {j \in 0..16 : buff[j] = 0}
      n == IF nul = {} THEN 17 ELSE CHOOSE j \in nul : \A k \in nul : j <= k
  IN [j \in 1..n |-> buff[j - 1]]

\* Lines 269-272: the character shown for byte c.
AsciiOf(c) == IF (c < 32) \/ (c > 126) THEN 46 ELSE c

\* StoreAscii without the terminator of line 273.
StoreAsciiNoTerminator(buff, i, c) ==
  [buff EXCEPT ![i % 16] = AsciiOf(c)]

\* Lines 269-273: store the character of byte c, read at index i, and
\* terminate the string after it.
StoreAscii(buff, i, c) ==
  [buff EXCEPT ![i % 16] = AsciiOf(c), ![(i % 16) + 1] = 0]

Out(kind, text) == [k |-> kind, v |-> text]

\* Lines 242-251: the label and the two notices.
HexStart ==
  /\ hPc = "start"
  /\ LET label == IF hDesc THEN <<Out("desc", <<>>)>> ELSE <<>> IN
     IF hLen = 0
       THEN /\ hOut' = label \o <<Out("zero", <<>>)>>
            /\ hPc' = "done"
     ELSE IF hLen < 0
       THEN /\ hOut' = label \o <<Out("negative", <<hLen>>)>>
            /\ hPc' = "done"
     ELSE /\ hOut' = label
          /\ hPc' = "loop"
  /\ hI' = 0
  /\ UNCHANGED <<hDesc, hLen, hData, hBuff, hReads>>
  /\ UNCHANGED <<filesVars, writeVars, mapVars>>

\* Lines 254-274: one iteration of the loop over the bytes.
HexByte ==
  /\ hPc = "loop"
  /\ hI < hLen
  /\ LET c == hData[hI + 1]
         head == IF (hI % 16) = 0
                   THEN (IF hI # 0 THEN <<Out("ascii", CString(hBuff))>> ELSE <<>>)
                          \o <<Out("offset", Fmt04x(hI))>>
                   ELSE <<>>
     IN
     /\ hOut' = hOut \o head \o <<Out("hex", Fmt02x(c))>>
     /\ hBuff' = StoreAscii(hBuff, hI, c)
     /\ hReads' = hReads \cup {hI}
  /\ hI' = hI + 1
  /\ hPc' = "loop"
  /\ UNCHANGED <<hDesc, hLen, hData>>
  /\ UNCHANGED <<filesVars, writeVars, mapVars>>

\* Line 254: the loop ends at i = len.
HexLoopEnd ==
  /\ hPc = "loop"
  /\ ~(hI < hLen)
  /\ hPc' = "pad"
  /\ UNCHANGED <<hDesc, hLen, hData, hI, hBuff, hOut, hReads>>
  /\ UNCHANGED <<filesVars, writeVars, mapVars>>

\* Lines 277-280: one iteration of the padding of the last line.
HexPad ==
  /\ hPc = "pad"
  /\ (hI % 16) # 0
  /\ hOut' = Append(hOut, Out("pad", <<>>))
  /\ hI' = hI + 1
  /\ UNCHANGED <<hDesc, hLen, hData, hPc, hBuff, hReads>>
  /\ UNCHANGED <<filesVars, writeVars, mapVars>>

\* Line 283: the ASCII of the last line.
HexLast ==
  /\ hPc = "pad"
  /\ (hI % 16) = 0
  /\ hOut' = Append(hOut, Out("ascii", CString(hBuff)))
  /\ hPc' = "done"
  /\ UNCHANGED <<hDesc, hLen, hData, hI, hBuff, hReads>>
  /\ UNCHANGED <<filesVars, writeVars, mapVars>>

\* buff is not initialised: it holds anything when the function starts.
InitHex ==
  /\ hDesc \in BOOLEAN
  /\ hLen \in (-MaxNegLen)..MaxHexLen
  /\ hData \in HexBuffers
  /\ hPc = "start"
  /\ hI = 0
  /\ hBuff \in {[j \in 0..16 |-> c] : c \in {0, 88}}
  /\ hOut = <<>>
  /\ hReads = {}
  /\ IdleFiles /\ IdleWrite /\ IdleMap

NextHex ==
  \/ HexStart
  \/ HexByte
  \/ HexLoopEnd
  \/ HexPad
  \/ HexLast

SpecHex == InitHex /\ [][NextHex]_vars

\* --- reading the dump back

\* The output after the optional label line.
HexBody == IF hOut # <<>> /\ hOut[1].k = "desc" THEN Tail(hOut) ELSE hOut

HexValue(ch) == IF ch >= 97 THEN ch - 87 ELSE ch - 48

RECURSIVE ParseHex(_)
\* The number a hex numeral denotes.
ParseHex(t) ==
  IF t = <<>> THEN 0
  ELSE 16 * ParseHex(SubSeq(t, 1, Len(t) - 1)) + HexValue(t[Len(t)])

HexRowCount == (hLen + 15) \div 16

\* The bytes row r (from 0) has to show: [16r, min(16r + 16, len)).
RowBytes(r) ==
  LET n == IF 16 * r + 16 <= hLen THEN 16 ELSE hLen - 16 * r
  IN [j \in 1..n |-> hData[16 * r + j]]

\* Row r of the body: an offset, a hex numeral a byte, padding up to 16
\* columns, the ASCII gutter.
RowIsRight(r) ==
  LET b == HexBody
      at == 18 * r
      want == RowBytes(r)
  IN
  /\ b[at + 1].k = "offset"
  /\ Len(b[at + 1].v) = 4 /\ ParseHex(b[at + 1].v) = 16 * r
  /\ \A j \in 1..16 :
       IF j <= Len(want)
         THEN /\ b[at + 1 + j].k = "hex"
              /\ Len(b[at + 1 + j].v) = 2
              /\ ParseHex(b[at + 1 + j].v) = want[j]
         ELSE b[at + 1 + j].k = "pad"
  /\ b[at + 18].k = "ascii"
  /\ Len(b[at + 18].v) = Len(want)
  /\ \A j \in 1..Len(want) :
       b[at + 18].v[j] = (IF want[j] < 32 \/ want[j] > 126 THEN 46 ELSE want[j])

\* C9: for len > 0 the dump is ceil(len / 16) rows, row r labelled with the
\* 4-digit hex offset 16r and showing the bytes [16r, min(16r + 16, len)) in
\* hex and then in ASCII, with '.' for any byte below 0x20 or above 0x7e;
\* for len = 0 it is the zero-length notice alone and for len < 0 the
\* negative-length notice alone (after the label line, when a label is
\* given), and then no byte of the buffer is read.
C9_HexDump ==
  /\ hReads \subseteq 0..(hLen - 1)
  /\ (hPc = "done" /\ hLen > 0)
       => /\ Len(HexBody) = 18 * HexRowCount
          /\ \A r \in 0..(HexRowCount - 1) : RowIsRight(r)
          /\ hReads = 0..(hLen - 1)
  /\ (hPc = "done" /\ hLen = 0) => HexBody = <<Out("zero", <<>>)>>
  /\ (hPc = "done" /\ hLen < 0) => HexBody = <<Out("negative", <<hLen>>)>>
  /\ (hPc = "done" /\ hDesc) => hOut[1].k = "desc"

\* The 20 bytes of two rows (16 + 4), with bytes outside the printable range.
C9_Witness ==
  /\ hPc = "done" /\ hLen = 20 /\ hDesc
  /\ hBuff[0] = 46
  /\ HexBody[19].v = <<48, 48, 49, 48>>
  /\ \E j \in 1..4 : HexBody[36].v[j] = 46 /\ HexBody[36].v[j] # hData[16 + j]

====
